---- MODULE Spec2Model ----
(***************************************************************************)
(* Model of the minilogue-manipulation bridge (src/main.py, src/models.py) *)
(*                                                                         *)
(* Two threads of one Python process:                                      *)
(*   - the main thread: load_config, SimpleUDPClient, Thread.start, the    *)
(*     bounded "/random" emission loop, the drain sleep;                   *)
(*   - the daemon thread: start_osc_server, which binds a blocking UDP     *)
(*     server and dispatches "/synth_settings" to log_synth_settings.      *)
(*                                                                         *)
(* The environment is: the content of config.yml, the content of the log   *)
(* file before the run, inbound datagrams, network and disk faults, the    *)
(* wall clock and the interrupt signal.                                    *)
(*                                                                         *)
(* Modelling assumptions (inputs left out):                                *)
(*   - synth_params holds pairwise distinct names, none called Timestamp;  *)
(*   - max_randomizations is a count (>= 0);                               *)
(*   - SimpleUDPClient() and Thread.start() do not fail.                   *)
(***************************************************************************)
EXTENDS Integers, Sequences, FiniteSets, TLC

\* ------------------------------------------------------------------ bounds
MaxN == 2          \* largest max_randomizations tried
MaxParams == 2     \* largest number of synth_params tried
MaxArgs == 3       \* longest inbound argument list tried
MaxMsgs == 2       \* number of inbound datagrams delivered in one run

\* ------------------------------------------------------- program constants
RandLo == 1
RandHi == 100
SynthRoute == "/synth_settings"
TimestampCol == "Timestamp"
RestVal == ""

\* ------------------------------------------------------------ input domains
NameList == <<"freq", "amp", "cutoff", "res">>
\* One inbound argument list per length: the framing flag, then values that
\* differ by position (main.py never looks inside a value).
ArgList == <<"true", "440", "0.8", "12", "7", "3">>
Timestamps == {"2026-01-01 00:00:00"}
Routes == {SynthRoute, "/other"}

Min(a, b) == IF a < b THEN a ELSE b

\* models.py: the validated settings object.  Endpoints and the log path are
\* opaque to every decision of main.py and are left out of the record.
Config ==
    [synth_params : {SubSeq(NameList, 1, k) : k \in 0..Min(MaxParams, Len(NameList))},
     max_randomizations : 0..MaxN]

NoConfig == [synth_params |-> <<>>, max_randomizations |-> 0]

\* What open("config.yml") / yaml.safe_load / Config(**config) can meet.
ConfigFiles ==
    {[kind |-> "valid", value |-> c] : c \in Config}
        \cup {[kind |-> k, value |-> NoConfig] : k \in {"missing", "malformed", "schema"}}

\* The log file as met at start-up: empty, or left by an earlier run.
PriorLogs == {<<>>, <<<<TimestampCol, "freq">>, <<"2025-12-31 23:59:59", "440">>>>}

\* ------------------------------------------------------ Python exceptions
\* The part of the built-in exception hierarchy the handlers distinguish.
Parent(exc) ==
    CASE exc = "FileNotFoundError" -> "OSError"
      [] exc = "OSError" -> "Exception"
      [] exc = "YAMLError" -> "Exception"
      [] exc = "ValidationError" -> "ValueError"
      [] exc = "ValueError" -> "Exception"
      [] exc = "Exception" -> "BaseException"
      [] exc = "KeyboardInterrupt" -> "BaseException"
      [] OTHER -> "BaseException"

RECURSIVE IsInstance(_, _)
IsInstance(exc, cls) ==
    IF exc = cls THEN TRUE
    ELSE IF exc = "BaseException" THEN FALSE
    ELSE IsInstance(Parent(exc), cls)

\* ------------------------------------------------------------- log stream
Kinds == {"ConfigNotFound", "ConfigParse", "AppError", "SendError",
          "LogIOError", "LogUnexpected", "ServerError", "Shutdown",
          "Done", "Waiting", "Starting", "Listening", "Sending"}

ErrorKinds == {"ConfigNotFound", "ConfigParse", "AppError", "SendError",
               "LogIOError", "LogUnexpected", "ServerError"}

NoReports == [k \in Kinds |-> 0]

Report(r, k) == [r EXCEPT ![k] = @ + 1]

VARIABLES
    configFile,     \* environment: what config.yml holds
    priorLog,       \* environment: the log file's content before the run
    config,         \* main: the loaded Config (NoConfig until loaded)
    loaded,         \* main: load_config returned
    client,         \* main: SimpleUDPClient constructed
    mainPc,         \* main: position in main()
    i,              \* main: iterations of the for loop completed
    sentOk,         \* wire: "/random" datagrams sent
    sentFail,       \* wire: send_message calls that raised
    argsInRange,    \* wire: every argument sent was an integer in 1..100
    waits,          \* main: time.sleep(0.01) calls that returned
    exitStatus,     \* process: "running", "0" or "1"
    listener,       \* daemon thread: Unstarted, Starting, Bound, Serving, Dead, Stopped
    hpc,            \* handler: idle, header, row
    haddr,          \* handler: address of the message being handled
    hargs,          \* handler: *args of the message being handled
    timestamp,      \* handler: local timestamp
    settings_dict,  \* handler: local settings_dict, a sequence of <<key, value>>
    fbuf,           \* handler: rows written to the open file, not yet flushed
    logFile,        \* disk: rows of the log file
    rcvd,           \* daemon thread: datagrams received
    logFaults,      \* disk: faults raised inside log_synth_settings
    reports         \* log stream: number of records emitted per kind

vars == <<configFile, priorLog, config, loaded, client, mainPc, i, sentOk,
          sentFail, argsInRange, waits, exitStatus, listener, hpc, haddr, hargs,
          timestamp, settings_dict, fbuf, logFile, rcvd, logFaults, reports>>

mainVars == <<config, loaded, client, mainPc, i, sentOk, sentFail, argsInRange,
             waits>>
handlerVars == <<hpc, haddr, hargs, timestamp, settings_dict, fbuf, logFile, rcvd, logFaults>>
envVars == <<configFile, priorLog>>

Init ==
    /\ configFile \in ConfigFiles
    /\ priorLog \in PriorLogs
    /\ config = NoConfig
    /\ loaded = FALSE
    /\ client = FALSE
    /\ mainPc = "load"
    /\ i = 0
    /\ sentOk = 0
    /\ sentFail = 0
    /\ argsInRange = TRUE
    /\ waits = 0
    /\ exitStatus = "running"
    /\ listener = "Unstarted"
    /\ hpc = "idle"
    /\ haddr = ""
    /\ hargs = <<>>
    /\ timestamp = ""
    /\ settings_dict = <<>>
    /\ fbuf = <<>>
    /\ logFile = priorLog
    /\ rcvd = 0
    /\ logFaults = 0
    /\ reports = NoReports

\* ------------------------------------------------- pure parts of main.py
\* zip(a, b): pairs up to the shorter length.
ZipLongest(a, b) ==
    [j \in 1..Len(a) |-> <<a[j], IF j <= Len(b) THEN b[j] ELSE RestVal>>]

ZipReversedNames(a, b) ==
    [j \in 1..Min(Len(a), Len(b)) |-> <<a[Len(a) + 1 - j], b[j]>>]

Zip(a, b) == [j \in 1..Min(Len(a), Len(b)) |-> <<a[j], b[j]>>]

\* d[k] = v on an insertion-ordered dict held as a sequence of <<key, value>>.
DictSet(d, k, v) ==
    IF \E j \in 1..Len(d) : d[j][1] = k
    THEN [j \in 1..Len(d) |-> IF d[j][1] = k THEN <<k, v>> ELSE d[j]]
    ELSE Append(d, <<k, v>>)

\* dict(pairs)
RECURSIVE Dict(_)
Dict(pairs) ==
    IF pairs = <<>> THEN <<>>
    ELSE LET front == SubSeq(pairs, 1, Len(pairs) - 1)
             last == pairs[Len(pairs)]
         IN DictSet(Dict(front), last[1], last[2])

Keys(d) == [j \in 1..Len(d) |-> d[j][1]]

KeySet(d) == {d[j][1] : j \in 1..Len(d)}

\* d.get(k, default)
DictGet(d, k, default) ==
    IF \E j \in 1..Len(d) : d[j][1] = k
    THEN d[CHOOSE j \in 1..Len(d) : d[j][1] = k][2]
    ELSE default

\* line 56: list(args)[1:]
SettingsKeepFlag(args) == args

Settings(args) == SubSeq(args, 2, Len(args))

\* line 59: dict(zip(config.synth_params, settings))
SettingsDict(cfg, args) == Dict(Zip(cfg.synth_params, Settings(args)))

\* line 62: ["Timestamp"] + config.synth_params
Fieldnames(cfg) == <<TimestampCol>> \o cfg.synth_params

\* line 66: {"Timestamp": timestamp, **settings_dict}
RowDict(ts, sd) == Dict(<<<<TimestampCol, ts>>>> \o sd)

\* csv.DictWriter.writerow: one cell per fieldname, restval for a missing key.
DictToListDictOrder(fieldnames, d) == [j \in 1..Len(d) |-> d[j][2]]

DictToList(fieldnames, d) ==
    [j \in 1..Len(fieldnames) |-> DictGet(d, fieldnames[j], RestVal)]

\* csv.DictWriter (extrasaction="raise"): a key outside fieldnames is a ValueError.
HasExtras(fieldnames, d) ==
    \E k \in KeySet(d) : \A j \in 1..Len(fieldnames) : fieldnames[j] # k

\* line 123: random.randint(1, 100), both ends included.
RandInt == RandLo..RandHi

\* ------------------------------------------------------ handler clauses
\* line 128: except Exception
InnerCatchNarrow == "ValueError"

InnerCatchAll == "BaseException"

InnerCatch == "Exception"

\* line 136: except KeyboardInterrupt
ShutdownCatch == "KeyboardInterrupt"

\* line 138: except Exception
AppErrorCatch == "Exception"

\* lines 136-140: what main() does with an exception that reaches its try.
OuterPc(exc) == IF IsInstance(exc, ShutdownCatch) THEN "returned" ELSE "raised"

OuterReports(r, exc) ==
    IF IsInstance(exc, ShutdownCatch) THEN Report(r, "Shutdown")
    ELSE IF IsInstance(exc, AppErrorCatch) THEN Report(r, "AppError")
    ELSE r

\* lines 37-42: load_config reports the two faults it names and re-raises.
LoadReports(r, exc) ==
    IF IsInstance(exc, "FileNotFoundError") THEN Report(r, "ConfigNotFound")
    ELSE IF IsInstance(exc, "YAMLError") THEN Report(r, "ConfigParse")
    ELSE r

\* lines 34-36: the exception the three steps of load_config raise, if any.
LoadFault(cf) ==
    CASE cf.kind = "missing" -> "FileNotFoundError"
      [] cf.kind = "malformed" -> "YAMLError"
      [] cf.kind = "schema" -> "ValidationError"
      [] OTHER -> "none"

\* lines 69-72: the handler's two except clauses; "propagate" if neither matches.
HandlerOutcomeIOOnly(exc) ==
    IF IsInstance(exc, "OSError") THEN "LogIOError" ELSE "propagate"

HandlerOutcome(exc) ==
    IF IsInstance(exc, "OSError") THEN "LogIOError"
    ELSE IF IsInstance(exc, "Exception") THEN "LogUnexpected"
    ELSE "propagate"

\* ------------------------------------------------------------ main thread
\* line 108, load_config succeeds.
LoadConfigOk ==
    /\ mainPc = "load"
    /\ LoadFault(configFile) = "none"
    /\ config' = configFile.value
    /\ loaded' = TRUE
    /\ mainPc' = "client"
    /\ UNCHANGED <<client, i, sentOk, sentFail, argsInRange, waits, exitStatus,
                   listener, reports>>
    /\ UNCHANGED handlerVars
    /\ UNCHANGED envVars

\* line 108, load_config raises: lines 37-42, then lines 138-140.
LoadConfigFailSwallowed ==
    /\ mainPc = "load"
    /\ LoadFault(configFile) # "none"
    /\ reports' = LoadReports(reports, LoadFault(configFile))
    /\ mainPc' = "client"
    /\ UNCHANGED <<config, loaded, client, i, sentOk, sentFail, argsInRange, waits,
                   exitStatus, listener>>
    /\ UNCHANGED handlerVars
    /\ UNCHANGED envVars

LoadConfigFail ==
    /\ mainPc = "load"
    /\ LoadFault(configFile) # "none"
    /\ LET exc == LoadFault(configFile)
       IN /\ reports' = OuterReports(LoadReports(reports, exc), exc)
          /\ mainPc' = OuterPc(exc)
    /\ UNCHANGED <<config, loaded, client, i, sentOk, sentFail, argsInRange, waits,
                   exitStatus, listener>>
    /\ UNCHANGED handlerVars
    /\ UNCHANGED envVars

\* line 109
MakeClient ==
    /\ mainPc = "client"
    /\ client' = TRUE
    /\ mainPc' = "thread"
    /\ UNCHANGED <<config, loaded, i, sentOk, sentFail, argsInRange, waits,
                   exitStatus, listener, reports>>
    /\ UNCHANGED handlerVars
    /\ UNCHANGED envVars

\* lines 111-114: Thread(target=start_osc_server, daemon=True).start()
StartThreadAndJoin ==
    /\ mainPc = "thread"
    /\ listener' = "Starting"
    /\ mainPc' = "join"
    /\ UNCHANGED <<config, loaded, client, i, sentOk, sentFail, argsInRange, waits,
                   exitStatus, reports>>
    /\ UNCHANGED handlerVars
    /\ UNCHANGED envVars

StartThread ==
    /\ mainPc = "thread"
    /\ listener' = "Starting"
    /\ mainPc' = "loop"
    /\ UNCHANGED <<config, loaded, client, i, sentOk, sentFail, argsInRange, waits,
                   exitStatus, reports>>
    /\ UNCHANGED handlerVars
    /\ UNCHANGED envVars

\* line 117: for i in range(n) has another value to hand out after k of them.
LoopCondOffByOne(k, n) == k <= n

LoopCondStopsEarly(k, n) == k < n - 1

LoopCond(k, n) == k < n

\* lines 117-123: another iteration of range(config.max_randomizations).
LoopIter ==
    /\ mainPc = "loop"
    /\ LoopCond(i, config.max_randomizations)
    /\ reports' = Report(reports, "Sending")
    /\ mainPc' = "send"
    /\ UNCHANGED <<config, loaded, client, i, sentOk, sentFail, argsInRange, waits,
                   exitStatus, listener>>
    /\ UNCHANGED handlerVars
    /\ UNCHANGED envVars

\* lines 117, 132: range exhausted.
LoopExit ==
    /\ mainPc = "loop"
    /\ ~LoopCond(i, config.max_randomizations)
    /\ reports' = Report(reports, "Waiting")
    /\ mainPc' = "drain"
    /\ UNCHANGED <<config, loaded, client, i, sentOk, sentFail, argsInRange, waits,
                   exitStatus, listener>>
    /\ UNCHANGED handlerVars
    /\ UNCHANGED envVars

\* lines 123-125: client.send_message("/random", random_value) returns.
SendOkAfterBound ==
    /\ mainPc = "send"
    /\ listener \in {"Bound", "Serving", "Dead"}
    /\ \E v \in RandInt :
          argsInRange' = (argsInRange /\ v >= 1 /\ v <= 100)
    /\ sentOk' = sentOk + 1
    /\ mainPc' = "sleep"
    /\ UNCHANGED <<config, loaded, client, i, sentFail, waits, exitStatus, listener,
                   reports>>
    /\ UNCHANGED handlerVars
    /\ UNCHANGED envVars

SendOk ==
    /\ mainPc = "send"
    /\ \E v \in RandInt :
          argsInRange' = (argsInRange /\ v >= 1 /\ v <= 100)
    /\ sentOk' = sentOk + 1
    /\ mainPc' = "sleep"
    /\ UNCHANGED <<config, loaded, client, i, sentFail, waits, exitStatus, listener,
                   reports>>
    /\ UNCHANGED handlerVars
    /\ UNCHANGED envVars

\* An exception raised inside the try of lines 124-127.
InnerRaise(exc) ==
    IF IsInstance(exc, InnerCatch)
    THEN /\ reports' = Report(reports, "SendError")
         /\ i' = i + 1
         /\ mainPc' = "loop"
    ELSE /\ reports' = OuterReports(reports, exc)
         /\ i' = i
         /\ mainPc' = OuterPc(exc)

\* lines 125, 128-129: send_message raises a network fault.
SendFailThenSleep ==
    /\ mainPc = "send"
    /\ sentFail' = sentFail + 1
    /\ reports' = Report(reports, "SendError")
    /\ i' = i
    /\ mainPc' = "sleep"
    /\ UNCHANGED <<config, loaded, client, sentOk, argsInRange, waits, exitStatus,
                   listener>>
    /\ UNCHANGED handlerVars
    /\ UNCHANGED envVars

SendFail ==
    /\ mainPc = "send"
    /\ sentFail' = sentFail + 1
    /\ InnerRaise("OSError")
    /\ UNCHANGED <<config, loaded, client, sentOk, argsInRange, waits, exitStatus,
                   listener>>
    /\ UNCHANGED handlerVars
    /\ UNCHANGED envVars

\* line 127: time.sleep(0.01) returns; the for statement takes the next i.
Sleep ==
    /\ mainPc = "sleep"
    /\ i' = i + 1
    /\ waits' = waits + 1
    /\ mainPc' = "loop"
    /\ UNCHANGED <<config, loaded, client, sentOk, sentFail, argsInRange,
                   exitStatus, listener, reports>>
    /\ UNCHANGED handlerVars
    /\ UNCHANGED envVars

\* lines 133-134: time.sleep(0.5) returns, "Done." is logged, main returns.
Drain ==
    /\ mainPc = "drain"
    /\ reports' = Report(reports, "Done")
    /\ mainPc' = "returned"
    /\ UNCHANGED <<config, loaded, client, i, sentOk, sentFail, argsInRange, waits,
                   exitStatus, listener>>
    /\ UNCHANGED handlerVars
    /\ UNCHANGED envVars

\* SIGINT: KeyboardInterrupt raised in the main thread, anywhere in the try of
\* lines 107-134; at lines 125 and 127 it is raised inside the inner try.
Interrupt ==
    /\ mainPc \in {"load", "client", "thread", "loop", "send", "sleep", "drain"}
    /\ IF mainPc \in {"send", "sleep"}
       THEN InnerRaise("KeyboardInterrupt")
       ELSE /\ reports' = OuterReports(reports, "KeyboardInterrupt")
            /\ i' = i
            /\ mainPc' = OuterPc("KeyboardInterrupt")
    /\ UNCHANGED <<config, loaded, client, sentOk, sentFail, argsInRange, waits,
                   exitStatus, listener>>
    /\ UNCHANGED handlerVars
    /\ UNCHANGED envVars

\* line 144 and interpreter shutdown: main() returned (status 0) or raised
\* (traceback, status 1); the daemon thread is not joined and dies with the
\* process, whatever it was doing; what it had not flushed is lost.
ProcessExitAfterJoin ==
    /\ mainPc \in {"returned", "raised"}
    /\ listener \notin {"Starting", "Bound", "Serving"}
    /\ exitStatus' = IF mainPc = "returned" THEN "0" ELSE "1"
    /\ mainPc' = "exited"
    /\ listener' = IF listener \in {"Starting", "Bound", "Serving"}
                   THEN "Stopped" ELSE listener
    /\ hpc' = "idle"
    /\ haddr' = ""
    /\ hargs' = <<>>
    /\ timestamp' = ""
    /\ settings_dict' = <<>>
    /\ fbuf' = <<>>
    /\ UNCHANGED <<config, loaded, client, i, sentOk, sentFail, argsInRange, waits,
                   logFile, rcvd, logFaults, reports>>
    /\ UNCHANGED envVars

ProcessExit ==
    /\ mainPc \in {"returned", "raised"}
    /\ exitStatus' = IF mainPc = "returned" THEN "0" ELSE "1"
    /\ mainPc' = "exited"
    /\ listener' = IF listener \in {"Starting", "Bound", "Serving"}
                   THEN "Stopped" ELSE listener
    /\ hpc' = "idle"
    /\ haddr' = ""
    /\ hargs' = <<>>
    /\ timestamp' = ""
    /\ settings_dict' = <<>>
    /\ fbuf' = <<>>
    /\ UNCHANGED <<config, loaded, client, i, sentOk, sentFail, argsInRange, waits,
                   logFile, rcvd, logFaults, reports>>
    /\ UNCHANGED envVars

\* ---------------------------------------------------------- daemon thread
\* Inbound argument lists: none, the framing flag alone, the flag and values.
ArgLists == {SubSeq(ArgList, 1, n) : n \in 0..Min(MaxArgs, Len(ArgList))}

\* lines 82-93: Dispatcher, map, BlockingOSCUDPServer binds the endpoint.
ServerBind ==
    /\ listener = "Starting"
    /\ listener' = "Bound"
    /\ reports' = Report(reports, "Starting")
    /\ UNCHANGED mainVars
    /\ UNCHANGED handlerVars
    /\ UNCHANGED <<exitStatus>>
    /\ UNCHANGED envVars

\* lines 91, 100-102: the bind raises OSError; it is logged and re-raised, and
\* the exception ends the thread it was raised in.
ServerBindFail ==
    /\ listener = "Starting"
    /\ listener' = "Dead"
    /\ reports' = Report(Report(reports, "Starting"), "ServerError")
    /\ UNCHANGED mainVars
    /\ UNCHANGED handlerVars
    /\ UNCHANGED <<exitStatus>>
    /\ UNCHANGED envVars

\* lines 94-99: "Listening on ..." and serve_forever().
ServerServe ==
    /\ listener = "Bound"
    /\ listener' = "Serving"
    /\ reports' = Report(reports, "Listening")
    /\ UNCHANGED mainVars
    /\ UNCHANGED handlerVars
    /\ UNCHANGED <<exitStatus>>
    /\ UNCHANGED envVars

\* The handler returns: its locals and its file object are gone.
HandlerReturn ==
    /\ hpc' = "idle"
    /\ haddr' = ""
    /\ hargs' = <<>>
    /\ timestamp' = ""
    /\ settings_dict' = <<>>
    /\ fbuf' = <<>>

\* lines 69-72: an exception raised in the try of log_synth_settings.
HandlerRaiseSilent(exc) ==
    /\ logFaults' = logFaults + 1
    /\ listener' = listener
    /\ reports' = reports
    /\ HandlerReturn

HandlerRaise(exc) ==
    /\ logFaults' = logFaults + 1
    /\ IF HandlerOutcome(exc) = "propagate"
       THEN /\ listener' = "Dead"
            /\ reports' = reports
       ELSE /\ listener' = listener
            /\ reports' = Report(reports, HandlerOutcome(exc))
    /\ HandlerReturn

\* line 91: BlockingOSCUDPServer takes the next datagram when the handler of
\* the last one has returned.
ServerAlwaysReady == TRUE

ServerIdle == hpc = "idle"

\* line 61: open(config.log_file_path, "a") keeps what the file holds.
OpenTruncate(file) == <<>>

OpenAppend(file) == file

\* lines 86-89: dispatcher.map("/synth_settings", ...) is the only mapping.
DispatchesAny(addr) == TRUE

Dispatches(addr) == addr = SynthRoute

\* lines 86-89: a datagram on a route the dispatcher has no handler for.
Ignore(addr, args) ==
    /\ listener = "Serving"
    /\ ServerIdle
    /\ rcvd < MaxMsgs
    /\ ~Dispatches(addr)
    /\ rcvd' = rcvd + 1
    /\ UNCHANGED mainVars
    /\ UNCHANGED <<hpc, hargs, haddr, timestamp, settings_dict, fbuf, logFile, logFaults>>
    /\ UNCHANGED <<exitStatus, listener, reports>>
    /\ UNCHANGED envVars

\* lines 86-89, 56-61: a "/synth_settings" datagram is dispatched to
\* log_synth_settings, which builds the record and opens the log file.
HandleOpen(addr, args, now) ==
    /\ listener = "Serving"
    /\ ServerIdle
    /\ rcvd < MaxMsgs
    /\ Dispatches(addr)
    /\ rcvd' = rcvd + 1
    /\ haddr' = addr
    /\ hargs' = args
    /\ timestamp' = now
    /\ settings_dict' = SettingsDict(config, args)
    /\ fbuf' = <<>>
    /\ hpc' = "header"
    /\ logFile' = OpenAppend(logFile)
    /\ UNCHANGED mainVars
    /\ UNCHANGED <<logFaults>>
    /\ UNCHANGED <<exitStatus, listener, reports>>
    /\ UNCHANGED envVars

\* lines 61, 69-70: open() raises.
HandleOpenFail(addr, args) ==
    /\ listener = "Serving"
    /\ ServerIdle
    /\ rcvd < MaxMsgs
    /\ Dispatches(addr)
    /\ rcvd' = rcvd + 1
    /\ HandlerRaise("OSError")
    /\ UNCHANGED mainVars
    /\ UNCHANGED <<logFile>>
    /\ UNCHANGED <<exitStatus>>
    /\ UNCHANGED envVars

\* line 64: f.tell() == 0 on a file opened for append: the file is empty.
TellAtStart == fbuf = <<>>

TellIsZero == logFile = <<>> /\ fbuf = <<>>

\* lines 64-65: writeheader() if the file is empty.
WriteHeader ==
    /\ listener = "Serving"
    /\ hpc = "header"
    /\ fbuf' = IF TellIsZero THEN Append(fbuf, Fieldnames(config)) ELSE fbuf
    /\ hpc' = "row"
    /\ UNCHANGED mainVars
    /\ UNCHANGED <<hargs, haddr, timestamp, settings_dict, logFile, rcvd, logFaults>>
    /\ UNCHANGED <<exitStatus, listener, reports>>
    /\ UNCHANGED envVars

\* lines 65, 69-72: writeheader() raises; the with statement closes the file.
WriteHeaderFail(exc) ==
    /\ listener = "Serving"
    /\ hpc = "header"
    /\ TellIsZero
    /\ HandlerRaise(exc)
    /\ UNCHANGED mainVars
    /\ UNCHANGED <<logFile, rcvd>>
    /\ UNCHANGED <<exitStatus>>
    /\ UNCHANGED envVars

\* lines 66-68: writerow(), the with statement closes (flushes) the file.
WriteRow ==
    /\ listener = "Serving"
    /\ hpc = "row"
    /\ IF HasExtras(Fieldnames(config), RowDict(timestamp, settings_dict))
       THEN /\ logFile' = logFile \o fbuf
            /\ HandlerRaise("ValueError")
       ELSE /\ logFile' = logFile \o
                   Append(fbuf, DictToList(Fieldnames(config),
                                           RowDict(timestamp, settings_dict)))
            /\ HandlerReturn
            /\ UNCHANGED <<logFaults, listener, reports>>
    /\ UNCHANGED mainVars
    /\ UNCHANGED <<rcvd>>
    /\ UNCHANGED <<exitStatus>>
    /\ UNCHANGED envVars

\* lines 66, 69-72: writerow() or the closing flush raises.  What writeheader
\* left in the buffer reaches the disk when the close can still flush it.
WriteRowFail(exc, flushed) ==
    /\ listener = "Serving"
    /\ hpc = "row"
    /\ logFile' = IF flushed THEN logFile \o fbuf ELSE logFile
    /\ HandlerRaise(exc)
    /\ UNCHANGED mainVars
    /\ UNCHANGED <<rcvd>>
    /\ UNCHANGED <<exitStatus>>
    /\ UNCHANGED envVars

\* ------------------------------------------------------------ specification
MainStep ==
    \/ LoadConfigOk
    \/ LoadConfigFail
    \/ MakeClient
    \/ StartThread
    \/ LoopIter
    \/ LoopExit
    \/ SendOk
    \/ SendFail
    \/ Sleep
    \/ Drain
    \/ ProcessExit

ListenerStep ==
    \/ ServerBind
    \/ ServerBindFail
    \/ ServerServe
    \/ \E addr \in Routes, args \in ArgLists : Ignore(addr, args)
    \/ \E addr \in Routes, args \in ArgLists, now \in Timestamps :
          HandleOpen(addr, args, now)
    \/ \E addr \in Routes, args \in ArgLists : HandleOpenFail(addr, args)
    \/ WriteHeader
    \/ \E exc \in {"OSError", "ValueError"} : WriteHeaderFail(exc)
    \/ WriteRow
    \/ \E exc \in {"OSError", "ValueError"}, flushed \in BOOLEAN :
          WriteRowFail(exc, flushed)

Next ==
    \/ MainStep
    \/ ListenerStep
    \/ Interrupt

Spec == Init /\ [][Next]_vars

\* The main thread is always scheduled again (the GIL is handed over, and
\* send_message and time.sleep return); datagrams, faults and SIGINT need not come.
FairSpec == Spec /\ WF_vars(MainStep)

TypeOK ==
    /\ configFile \in ConfigFiles
    /\ priorLog \in PriorLogs
    /\ config \in Config
    /\ loaded \in BOOLEAN
    /\ client \in BOOLEAN
    /\ mainPc \in {"load", "client", "thread", "loop", "send", "sleep", "drain",
                   "returned", "raised", "exited"}
    /\ i \in 0..MaxN
    /\ sentOk \in 0..MaxN
    /\ sentFail \in 0..MaxN
    /\ argsInRange \in BOOLEAN
    /\ exitStatus \in {"running", "0", "1"}
    /\ listener \in {"Unstarted", "Starting", "Bound", "Serving", "Dead", "Stopped"}
    /\ hpc \in {"idle", "header", "row"}
    /\ haddr \in Routes \cup {""}
    /\ hargs \in ArgLists
    /\ waits \in 0..MaxN
    /\ timestamp \in Timestamps \cup {""}
    /\ rcvd \in 0..MaxMsgs
    /\ logFaults \in 0..MaxMsgs
    /\ reports \in [Kinds -> Nat]

\* ------------------------------------------------------------------ claims
Attempts == sentOk + sentFail

N == config.max_randomizations

Completed == reports["Done"] > 0

Interrupted == reports["Shutdown"] > 0

\* C1: when the configuration loaded and no interrupt came, the emitter makes
\* exactly N = max_randomizations sends to /random, every argument an integer
\* in 1..100, and none after the Nth: the number of sends never exceeds N, it
\* is N once the loop is left, and it is still N at normal completion.
C1_ExactlyNSends ==
    /\ Attempts <= N
    /\ argsInRange
    /\ (loaded /\ mainPc = "drain") => Attempts = N
    /\ (loaded /\ Completed /\ ~Interrupted) => Attempts = N

C1_Witness ==
    /\ Completed
    /\ ~Interrupted
    /\ exitStatus = "0"
    /\ N = 2
    /\ sentOk = 2

\* C2: a send that fails with a network fault is neither retried nor fatal:
\* each iteration makes one attempt, a failure never makes main() raise, and
\* at completion the attempts number N whichever of them failed.
C2_FailedSendDoesNotStopLoop ==
    /\ mainPc \in {"loop", "send", "drain"} => Attempts = i
    /\ mainPc = "sleep" => Attempts = i + 1
    /\ loaded => (mainPc # "raised" /\ exitStatus # "1")
    /\ (Completed /\ sentFail > 0) => Attempts = N

C2_Witness ==
    /\ Completed
    /\ sentFail = 1
    /\ sentOk = 1
    /\ N = 2
    /\ reports["SendError"] = 1

Header == Fieldnames(config)

\* The rows a step added to the log file.
Added == SubSeq(logFile', Len(logFile) + 1, Len(logFile'))

HeaderCount == Cardinality({j \in 1..Len(logFile) : logFile[j] = Header})

\* A step in which log_synth_settings ran to its end without a fault.
AppendDone ==
    /\ hpc = "row"
    /\ hpc' = "idle"
    /\ logFaults' = logFaults
    /\ mainPc' = mainPc

\* C3: starting from an empty log file, a non-empty file has the header row as
\* its first line and nowhere else; a step that adds rows adds the header if
\* and only if the file was empty, so an append to a non-empty file adds none.
C3_HeaderExactlyOnce ==
    /\ [](priorLog = <<>> /\ logFile # <<>> => logFile[1] = Header /\ HeaderCount = 1)
    /\ [][logFile' # logFile =>
            ((\E j \in 1..Len(Added) : Added[j] = Header) <=> logFile = <<>>)]_vars
    /\ [][hpc = "header" /\ hpc' = "row" =>
            (fbuf' = <<Header>> <=> logFile = <<>>)]_vars

C3_Witness ==
    /\ priorLog = <<>>
    /\ Len(logFile) = 3
    /\ logFaults = 0
    /\ rcvd = 2
    /\ hpc = "idle"

\* C4: a fault while handling one /synth_settings message stays inside the
\* handler: the listener is still Serving, the handler has returned, no data
\* row of that message reached the file, the main path is untouched; and a
\* message handled after a fault is appended like any other.
C4_LogFaultContained ==
    /\ [][logFaults' > logFaults =>
            /\ listener' = "Serving"
            /\ hpc' = "idle"
            /\ reports'["LogIOError"] + reports'["LogUnexpected"]
                 = reports["LogIOError"] + reports["LogUnexpected"] + 1
            /\ (logFile' = logFile \/ logFile' = logFile \o <<Header>>)
            /\ UNCHANGED mainVars
            /\ exitStatus' = exitStatus]_vars
    /\ [][AppendDone /\ logFaults > 0 =>
            /\ Len(logFile') = Len(logFile) + Len(fbuf) + 1
            /\ logFile'[Len(logFile')][1] = timestamp]_vars

C4_Witness ==
    /\ logFaults = 1
    /\ rcvd = 2
    /\ hpc = "row"
    /\ listener = "Serving"
    /\ reports["LogUnexpected"] = 1

\* C5: for a message with k+1 arguments (k configured names) the record's keys
\* are the configured names in order, the i-th value is argument i+1, and the
\* row written is the timestamp followed by arguments 2..k+1.
C5_RecordMatchesNames ==
    /\ [](hpc # "idle" /\ Len(hargs) = Len(config.synth_params) + 1 =>
            /\ Keys(settings_dict) = config.synth_params
            /\ \A j \in 1..Len(config.synth_params) :
                  settings_dict[j] = <<config.synth_params[j], hargs[j + 1]>>)
    /\ [][AppendDone /\ Len(hargs) = Len(config.synth_params) + 1 =>
            logFile'[Len(logFile')] = <<timestamp>> \o Tail(hargs)]_vars

C5_Witness ==
    /\ hpc = "row"
    /\ Len(config.synth_params) = 2
    /\ Len(hargs) = 3
    /\ hargs[2] # hargs[3]
    /\ hargs[1] # hargs[2]

\* Number of arguments after the framing flag.
Trailing == IF Len(hargs) = 0 THEN 0 ELSE Len(hargs) - 1

\* C6: when the number m of arguments after the flag differs from the number k
\* of names, the record pairs the first min(m, k) names with the first
\* min(m, k) values; writing the row raises nothing and a row is appended.
C6_ShorterZip ==
    /\ [](hpc # "idle" =>
            LET k == Len(config.synth_params)
                m == Trailing
            IN /\ Len(settings_dict) = Min(m, k)
               /\ Keys(settings_dict) = SubSeq(config.synth_params, 1, Min(m, k))
               /\ \A j \in 1..Min(m, k) : settings_dict[j][2] = hargs[j + 1]
               /\ ~HasExtras(Header, RowDict(timestamp, settings_dict)))
    /\ [][AppendDone /\ Trailing # Len(config.synth_params) =>
            /\ Len(logFile') = Len(logFile) + Len(fbuf) + 1
            /\ Len(logFile'[Len(logFile')]) = Len(config.synth_params) + 1]_vars

C6_Witness ==
    /\ hpc = "row"
    /\ Len(config.synth_params) = 2
    /\ Trailing = 1

RECURSIVE Total(_, _)
Total(r, S) ==
    IF S = {} THEN 0
    ELSE LET k == CHOOSE x \in S : TRUE IN r[k] + Total(r, S \ {k})

\* Number of records logged at error severity.
ErrorCount == Total(reports, ErrorKinds)

\* C7: if the listener fails to bind, the fault reaches the orchestrator and
\* the process does not end in normal completion with exit status 0.
C7_BindFailureNotExitZero ==
    reports["ServerError"] > 0 => ~(Completed /\ exitStatus = "0")

\* C8: if loading the configuration fails, the process aborts with no network
\* activity: no client is constructed, the listener is never started or bound,
\* nothing is sent, and the exit status is not 0.
C8_ConfigFailureBeforeNetwork ==
    /\ configFile.kind # "valid" =>
          /\ ~loaded
          /\ ~client
          /\ listener = "Unstarted"
          /\ Attempts = 0
          /\ rcvd = 0
          /\ mainPc \in {"load", "returned", "raised", "exited"}
    /\ reports["AppError"] > 0 =>
          /\ configFile.kind # "valid"
          /\ mainPc \in {"raised", "exited"}
          /\ exitStatus # "0"

C8_Witness ==
    /\ configFile.kind = "malformed"
    /\ reports["ConfigParse"] = 1
    /\ reports["AppError"] = 1
    /\ exitStatus = "1"

\* C9: the emitter never waits for the listener: whatever the listener is
\* doing, a step of the main path is enabled until the process has exited, and
\* under fair scheduling of the main path all N sends are made (unless an
\* interrupt ends the main path first).
C9_EmitterIndependent ==
    /\ [](mainPc # "exited" => ENABLED MainStep)
    /\ (loaded ~> (Attempts = N \/ Interrupted))

C9_Witness ==
    /\ mainPc = "drain"
    /\ N = 2
    /\ Attempts = 2
    /\ listener = "Serving"
    /\ hpc = "header"

\* C10: an interrupt anywhere in the emitter's loop, a timed wait or a send
\* included, ends the main path at once: the step logs the shutdown notice and
\* no error, main() returns, nothing is sent afterwards and the exit status is 0.
C10_InterruptHalts ==
    /\ [][Interrupt =>
            /\ mainPc' = "returned"
            /\ reports'["Shutdown"] = reports["Shutdown"] + 1
            /\ ErrorCount' = ErrorCount
            /\ Attempts' = Attempts]_vars
    /\ [][Interrupted => (sentOk' = sentOk /\ sentFail' = sentFail)]_vars
    /\ [](Interrupted => (mainPc \in {"returned", "exited"} /\ exitStatus # "1"
                          /\ reports["AppError"] = 0 /\ ~Completed))

C10_Witness ==
    /\ Interrupted
    /\ exitStatus = "0"
    /\ N = 2
    /\ sentOk = 1
    /\ sentFail = 0
    /\ i = 0

\* C11: once Serving, the listener leaves that state only when the process
\* terminates: no datagram and no fault inside the handler ends it; and the
\* process can terminate as soon as main() is over, whatever the listener is
\* doing, since the thread is a daemon and is never joined.
C11_ServingUntilProcessExit ==
    /\ [][listener = "Serving" /\ listener' # "Serving" =>
            /\ listener' = "Stopped"
            /\ exitStatus = "running"
            /\ exitStatus' # "running"]_vars
    /\ [](listener = "Stopped" => exitStatus # "running")
    /\ [](mainPc \in {"returned", "raised"} => ENABLED ProcessExit)

C11_Witness ==
    /\ listener = "Stopped"
    /\ exitStatus = "0"
    /\ reports["Listening"] = 1
    /\ rcvd = 2
    /\ logFaults = 1

\* C12: a datagram on another route than /synth_settings is ignored: the
\* handler never runs for it, and receiving it leaves the log file untouched
\* and the listener Serving.
C12_OtherRoutesIgnored ==
    /\ [](hpc # "idle" => haddr = SynthRoute)
    /\ [][(\E addr \in Routes \ {SynthRoute}, args \in ArgLists : Ignore(addr, args)) =>
            /\ logFile' = logFile
            /\ fbuf' = fbuf
            /\ hpc' = "idle"
            /\ logFaults' = logFaults
            /\ listener' = "Serving"]_vars
    /\ [][rcvd' # rcvd /\ logFaults' = logFaults /\ hpc' = "idle" =>
            (logFile' = logFile /\ listener' = "Serving")]_vars

C12_Witness ==
    /\ rcvd = 1
    /\ listener = "Serving"
    /\ hpc = "idle"
    /\ logFaults = 0
    /\ logFile = <<>>

\* The row log_synth_settings is to write for the message in hand: the
\* timestamp, then per configured name its value, empty where none came.
ExpectedRow ==
    <<timestamp>> \o
        [c \in 1..Len(config.synth_params) |->
            IF c <= Trailing THEN hargs[c + 1] ELSE RestVal]

\* C13: with a log that started empty, the header and every data row have k+1
\* cells in the same column order: the timestamp, then for the c-th configured
\* name the value the message gave for it, or an empty cell if it gave none.
C13_RowsMatchHeaderColumns ==
    /\ [][AppendDone => logFile'[Len(logFile')] = ExpectedRow]_vars
    /\ [](priorLog = <<>> /\ logFile # <<>> =>
            /\ logFile[1] = <<TimestampCol>> \o config.synth_params
            /\ \A j \in 2..Len(logFile) :
                  /\ Len(logFile[j]) = Len(config.synth_params) + 1
                  /\ logFile[j][1] \in Timestamps
                  /\ \A c \in 1..Len(config.synth_params) :
                        logFile[j][c + 1] \in {ArgList[c + 1], RestVal})

C13_Witness ==
    /\ priorLog = <<>>
    /\ Len(config.synth_params) = 2
    /\ Len(logFile) = 2
    /\ logFile[2][2] # RestVal
    /\ logFile[2][3] = RestVal

\* C14 as claimed: every record built for an inbound message has exactly the
\* configured names as its keys, in the configured order.
C14_RecordHasAllKeys ==
    hpc # "idle" => Keys(settings_dict) = config.synth_params

\* C14 as amended: every record's keys are the first min(k, m) configured
\* names in the configured order (m the number of arguments after the flag):
\* never a foreign or reordered key, and all k names when m >= k.
C14_RecordKeysArePrefix ==
    hpc # "idle" =>
        /\ Len(settings_dict) <= Len(config.synth_params)
        /\ Keys(settings_dict) = SubSeq(config.synth_params, 1, Len(settings_dict))
        /\ Len(settings_dict) = Min(Len(config.synth_params), Trailing)
        /\ (Trailing >= Len(config.synth_params) =>
               Keys(settings_dict) = config.synth_params)

C14_Witness ==
    /\ hpc = "header"
    /\ Len(config.synth_params) = 2
    /\ Trailing = 0
    /\ Len(hargs) = 1
    /\ settings_dict = <<>>

\* C15: every send fault and every log fault leaves one record at error
\* severity, and neither changes the outcome: once the configuration loaded,
\* the process never exits with another status than 0, it reports completion
\* unless interrupted, and under fair scheduling of the main path it gets there.
C15_FaultsReportedExitZero ==
    /\ [](reports["SendError"] = sentFail)
    /\ [](reports["LogIOError"] + reports["LogUnexpected"] = logFaults)
    /\ [](loaded /\ exitStatus # "running" =>
            (exitStatus = "0" /\ (Completed \/ Interrupted)))
    /\ (loaded ~> exitStatus = "0")

C15_Witness ==
    /\ exitStatus = "0"
    /\ Completed
    /\ ~Interrupted
    /\ sentFail = 1
    /\ logFaults = 1
    /\ ErrorCount = 2

\* C16: completion is reported only out of the drain wait, and the drain wait
\* is entered once, only after all N sends were attempted.
C16_CompletionAfterDrain ==
    /\ [](mainPc = "drain" => (Attempts = N /\ i = N /\ ~Completed))
    /\ [](reports["Waiting"] <= 1 /\ reports["Done"] <= reports["Waiting"])
    /\ [](Completed => Attempts = N)
    /\ [][reports'["Done"] # reports["Done"] =>
            (mainPc = "drain" /\ mainPc' = "returned" /\ Attempts = N)]_vars

C16_Witness ==
    /\ mainPc = "returned"
    /\ Completed
    /\ N = 1
    /\ Attempts = 1
    /\ reports["Waiting"] = 1

\* C17 as claimed: every iteration waits after its send, so at the head of the
\* loop there have been as many waits as sends attempted.
C17_WaitAfterEverySend ==
    mainPc \in {"loop", "send", "drain"} => waits = Attempts

\* C17 as amended: the wait follows every send that succeeded and no send
\* that failed: a successful send leads into the wait, a failed one leaves the
\* number of waits as it is, and at the head of the loop the waits number the
\* successful sends.
C17_WaitAfterSuccessfulSend ==
    /\ [](mainPc \in {"loop", "send", "drain"} => waits = sentOk)
    /\ [](mainPc = "sleep" => waits + 1 = sentOk)
    /\ [][sentOk' # sentOk => (mainPc' = "sleep" /\ waits' = waits)]_vars
    /\ [][sentFail' # sentFail => (mainPc' # "sleep" /\ waits' = waits)]_vars
    /\ [][mainPc = "sleep" /\ mainPc' = "loop" => waits' = waits + 1]_vars

C17_Witness ==
    /\ mainPc = "send"
    /\ N = 2
    /\ sentFail = 1
    /\ sentOk = 0
    /\ waits = 0

IsPrefix(a, b) == Len(a) <= Len(b) /\ SubSeq(b, 1, Len(a)) = a

\* C18: the listener handles one message at a time: while log_synth_settings
\* is at work no other datagram is taken and its message stays the one in
\* hand, nothing reaches the file between its empty-file check and its row,
\* and no step of the main path writes the file.
C18_OneAppendAtATime ==
    /\ [][hpc # "idle" => rcvd' = rcvd]_vars
    /\ [][hpc # "idle" /\ hpc' # "idle" =>
            /\ hargs' = hargs
            /\ haddr' = haddr
            /\ timestamp' = timestamp
            /\ logFile' = logFile]_vars
    /\ [][logFile' # logFile => (hpc = "row" /\ hpc' = "idle")]_vars
    /\ [][MainStep \/ Interrupt => logFile' = logFile]_vars

C18_Witness ==
    /\ hpc = "row"
    /\ rcvd = 2
    /\ mainPc = "sleep"
    /\ priorLog = <<>>
    /\ Len(logFile) = 2
    /\ fbuf = <<>>

\* Data rows the run has added to the log file.
DataRowsAdded ==
    Cardinality({j \in (Len(priorLog) + 1)..Len(logFile) : logFile[j][1] \in Timestamps})

InProgress == IF hpc = "idle" THEN 0 ELSE 1

\* C19 as claimed: the file only grows, and a step that changes it adds one
\* data row, or the header followed by one data row.
C19_AddsRowOrHeaderAndRow ==
    [][logFile' # logFile =>
          /\ IsPrefix(logFile, logFile')
          /\ (Added = <<ExpectedRow>> \/ Added = <<Header, ExpectedRow>>)]_vars

\* C19 as amended: the file only grows; a handler invocation adds nothing, or
\* one data row, or the header followed by one data row, or, when writing the
\* row fails after the header went to an empty file, the header alone; the
\* data rows added never outnumber the messages handled.
C19_AppendOnly ==
    /\ [][IsPrefix(logFile, logFile')]_vars
    /\ [][logFile' # logFile =>
            /\ hpc = "row"
            /\ hpc' = "idle"
            /\ \/ Added = <<ExpectedRow>> /\ logFile # <<>> /\ logFaults' = logFaults
               \/ Added = <<Header, ExpectedRow>> /\ logFile = <<>> /\ logFaults' = logFaults
               \/ Added = <<Header>> /\ logFile = <<>> /\ logFaults' = logFaults + 1]_vars
    /\ [](DataRowsAdded + logFaults + InProgress <= rcvd)

C19_Witness ==
    /\ priorLog = <<>>
    /\ logFile = <<Header>>
    /\ logFaults = 1
    /\ rcvd = 1
    /\ hpc = "idle"
    /\ listener = "Serving"

\* C20: nothing orders the emitter after the listener: a send is enabled
\* whether or not the listener has bound, and nothing is received or logged
\* while the listener is not Serving, before it binds or after the exit.
C20_NoStartupOrdering ==
    /\ [](mainPc = "send" => ENABLED SendOk)
    /\ [][listener # "Serving" => (logFile' = logFile /\ rcvd' = rcvd)]_vars
    /\ [][exitStatus # "running" => UNCHANGED vars]_vars

C20_Witness ==
    /\ exitStatus = "0"
    /\ Completed
    /\ N = 2
    /\ sentOk = 2
    /\ listener = "Stopped"
    /\ reports["Starting"] = 0
    /\ reports["Listening"] = 0
    /\ rcvd = 0
    /\ logFile = priorLog

====
